---- MODULE Spec2Model ----
(***************************************************************************)
(* Model of the board conversion engine of easyeda2kicad (src/board.ts):   *)
(* convertBoardToArray seeds the net table, converts every shape record    *)
(* of the board in turn (convertShape and the per-kind converters), and    *)
(* assembles the kicad_pcb document.  The state is the caller's board      *)
(* object (its shape list and its routerRule.nets array, which the         *)
(* conversion state aliases), the conversion state of the call in          *)
(* progress, and what the calls made so far returned.                      *)
(*                                                                         *)
(* Strings that the code parses are modelled by their structure: a layer   *)
(* id is its sequence of decimal digits, a layer name is a record          *)
(* (prefix, number, suffix), a path is its sequence of command letters.    *)
(* Geometry (coordinates, sizes) is not part of the model.                 *)
(***************************************************************************)
EXTENDS Integers, Sequences, FiniteSets, TLC

\* Longest shape list of a board, and number of convertBoardToArray calls
\* made on the same board object.
MaxShapes == 2
MaxRuns == 2

\* A field missing from a record (JavaScript undefined), and a null result.
undefined == "<undefined>"
Null == [kind |-> "null"]

----------------------------------------------------------------------------
\* Layer names and the layer resolver

LayerName(pre, n, suf) == [pre |-> pre, n |-> n, suf |-> suf]
InCu(k) == LayerName("In", k, "Cu")

\* const layers = { 1: 'F.Cu', ..., 15: 'Dwgs.User' }, keyed by the id string
layers ==
  ( <<1>> :> LayerName("F", 0, "Cu") @@ <<2>> :> LayerName("B", 0, "Cu")
 @@ <<3>> :> LayerName("F", 0, "SilkS") @@ <<4>> :> LayerName("B", 0, "SilkS")
 @@ <<5>> :> LayerName("F", 0, "Paste") @@ <<6>> :> LayerName("B", 0, "Paste")
 @@ <<7>> :> LayerName("F", 0, "Mask") @@ <<8>> :> LayerName("B", 0, "Mask")
 @@ <<1, 0>> :> LayerName("Edge", 0, "Cuts") @@ <<1, 1>> :> LayerName("Edge", 0, "Cuts")
 @@ <<1, 2>> :> LayerName("Cmts", 0, "User") @@ <<1, 3>> :> LayerName("F", 0, "Fab")
 @@ <<1, 4>> :> LayerName("B", 0, "Fab") @@ <<1, 5>> :> LayerName("Dwgs", 0, "User") )

\* parseInt(id, 10) of a string of decimal digits
RECURSIVE parseInt(_)
parseInt(id) ==
  IF Len(id) = 1 THEN id[1]
  ELSE 10 * parseInt(SubSeq(id, 1, Len(id) - 1)) + id[Len(id)]

\* The decimal digits of a positive number (the id string of a layer number)
RECURSIVE Digits(_)
Digits(k) == IF k < 10 THEN <<k>> ELSE Append(Digits(k \div 10), k % 10)

Max(a, b) == IF a >= b THEN a ELSE b

\* An execution of converter code: the conversion state it works on, whether
\* an Error was thrown and not caught, and the calls made so far in this
\* conversion to getNetId (name, returned id) and getLayerName (id).
Exec(st, threw, netLog, layerLog) ==
  [st |-> st, threw |-> threw, netLog |-> netLog, layerLog |-> layerLog]

Ret(e, ret) == [e |-> e, ret |-> ret]

getLayerNameInnerLo == 21
getLayerNameInnerHi == 50
getLayerNameSkipLo == 99
getLayerNameSkipHi == 200

\* The call is logged, then resolved from the parsed id
getLayerNameLogged(id, e) == [e EXCEPT !.layerLog = Append(@, id)]

\* Variant: the inner layer count is overwritten, not maximised
getLayerNameOfDropsMax(id, intId, e) ==
  IF id \in DOMAIN layers THEN Ret(e, layers[id])
  ELSE IF intId >= getLayerNameInnerLo /\ intId <= getLayerNameInnerHi
    THEN Ret([e EXCEPT !.st.innerLayers = intId - 20], InCu(intId - 20))
  ELSE IF intId >= getLayerNameSkipLo /\ intId < getLayerNameSkipHi THEN Ret(e, Null)
  ELSE Ret([e EXCEPT !.threw = TRUE], Null)

\* Variant: no tolerated band, every unmapped id is an error
getLayerNameOfThrowsOnSkipBand(id, intId, e) ==
  IF id \in DOMAIN layers THEN Ret(e, layers[id])
  ELSE IF intId >= getLayerNameInnerLo /\ intId <= getLayerNameInnerHi
    THEN Ret([e EXCEPT !.st.innerLayers = Max(@, intId - 20)], InCu(intId - 20))
  ELSE Ret([e EXCEPT !.threw = TRUE], Null)

\* Variant: every unmapped id is tolerated, none is an error
getLayerNameOfNeverThrows(id, intId, e) ==
  IF id \in DOMAIN layers THEN Ret(e, layers[id])
  ELSE IF intId >= getLayerNameInnerLo /\ intId <= getLayerNameInnerHi
    THEN Ret([e EXCEPT !.st.innerLayers = Max(@, intId - 20)], InCu(intId - 20))
  ELSE Ret(e, Null)

getLayerNameOf(id, intId, e) ==
  IF id \in DOMAIN layers THEN Ret(e, layers[id])
  ELSE IF intId >= getLayerNameInnerLo /\ intId <= getLayerNameInnerHi
    THEN Ret([e EXCEPT !.st.innerLayers = Max(@, intId - 20)], InCu(intId - 20))
  ELSE IF intId >= getLayerNameSkipLo /\ intId < getLayerNameSkipHi THEN Ret(e, Null)
  ELSE Ret([e EXCEPT !.threw = TRUE], Null)

getLayerName(id, e) == getLayerNameOf(id, parseInt(id), getLayerNameLogged(id, e))

isCopper(layerName) == layerName.suf = "Cu"

----------------------------------------------------------------------------
\* The net registry

\* nets.indexOf(netName): the first index (from 0) holding the name, or -1
indexOf(nets, netName) ==
  IF \E i \in 1..Len(nets) : nets[i] = netName
  THEN (CHOOSE i \in 1..Len(nets) :
          nets[i] = netName /\ \A j \in 1..(i - 1) : nets[j] # netName) - 1
  ELSE -1

\* !netName: undefined and the empty string are both falsy
falsy(netName) == netName = undefined \/ netName = ""

getNetIdLogged(e, netName, id) == Ret([e EXCEPT !.netLog = Append(@, <<netName, id>>)], id)

getNetIdOf(e, netName, index) ==
  IF index >= 0 THEN getNetIdLogged(e, netName, index)
  ELSE getNetIdLogged([e EXCEPT !.st.nets = Append(@, netName)], netName, Len(e.st.nets))

\* Variant: every non-empty name is pushed, found or not
getNetIdAlwaysPushes(e, netName) ==
  IF falsy(netName) THEN getNetIdLogged(e, netName, -1)
  ELSE getNetIdOf(e, netName, -1)

getNetId(e, netName) ==
  IF falsy(netName) THEN getNetIdLogged(e, netName, -1)
  ELSE getNetIdOf(e, netName, indexOf(e.st.nets, netName))

----------------------------------------------------------------------------
\* Output nodes.  An optional child that the code leaves null is Null.

NetChild(id) == [kind |-> "net", id |-> id]
PadNetChild(id, name) == [kind |-> "net", id |-> id, name |-> name]

\* A thrown Error ends the converter that was running: nothing is returned.
Thrown(e) == Ret(e, Null)

\* const v = ...; followed by the code K that uses v
With(v, K(_)) == K(v)

\* Variant: the net is looked up, never registered (nets.indexOf(net))
convertViaIndexOfOnly(args, e) ==
  Ret(e, [kind |-> "via", net |-> NetChild(indexOf(e.st.nets, args.net))])

\* Variant: the via's net is emitted like a pad's, when it is positive
convertViaNetIfPositive(args, e) ==
  With(getNetId(e, args.net), LAMBDA n :
    Ret(n.e, [kind |-> "via", net |-> IF n.ret > 0 THEN NetChild(n.ret) ELSE Null]))

convertVia(args, e) ==
  With(getNetId(e, args.net), LAMBDA n :
    Ret(n.e, [kind |-> "via", net |-> NetChild(n.ret)]))

\* Numbers of the source format are counted in hundredths of a source unit,
\* lengths of the output in 1/100000 mm: value * 10 * 0.0254 mm
kiUnits(value) == value * 254

\* kiCoords without a rotated parent: the origin (4000, 3000) is subtracted.
\* Footprints are placed at the origin unrotated, where the parent transform
\* is the identity
kiCoords(x, y) == [x |-> kiUnits(x - 400000), y |-> kiUnits(y - 300000)]

\* Variant: a polyline of three points or more gives its first segment only
TrackSegmentsFirstOnly(coordList) == IF Len(coordList) - 2 > 0 THEN 1 ELSE 0

\* for (i = 0; i < coordList.length - 2; i += 2): one node per value of i
TrackSegments(coordList) ==
  IF Len(coordList) - 2 > 0 THEN (Len(coordList) - 2 + 1) \div 2 ELSE 0

\* coordList[i + offset] of the k-th iteration (i = 2(k - 1)). The lists of
\* the model hold whole points, so the index past the end is never read
coordAt(coordList, k, offset) ==
  IF 2 * (k - 1) + offset + 1 <= Len(coordList)
  THEN coordList[2 * (k - 1) + offset + 1] ELSE 0

convertTrack(args, e, objName) ==
  With(getNetId(e, args.net), LAMBDA n :
  With(getLayerName(args.layer, n.e), LAMBDA l :
    IF l.e.threw THEN Thrown(l.e)
    ELSE IF l.ret = Null THEN Ret(l.e, <<>>)
    ELSE Ret(l.e, [k \in 1..TrackSegments(args.coords) |->
           [kind |-> IF objName = "segment" /\ ~isCopper(l.ret) THEN "gr_line" ELSE objName,
            start |-> kiCoords(coordAt(args.coords, k, 0), coordAt(args.coords, k, 1)),
            end |-> kiCoords(coordAt(args.coords, k, 2), coordAt(args.coords, k, 3)),
            width |-> kiUnits(args.width),
            layer |-> l.ret,
            net |-> IF isCopper(l.ret) /\ n.ret > 0 THEN NetChild(n.ret) ELSE Null,
            status |-> IF args.locked THEN 40000 ELSE 0]])))

\* layerName.replace('.SilkS', '.Fab') for the name text of a footprint
textLayer(layer, e, footprint, isName) ==
  With(getLayerName(layer, e), LAMBDA l :
    IF ~l.e.threw /\ l.ret # Null /\ footprint /\ isName /\ l.ret.suf = "SilkS"
    THEN Ret(l.e, [l.ret EXCEPT !.suf = "Fab"])
    ELSE l)

convertText(args, e, objName) ==
  With(textLayer(args.layer, e, objName = "fp_text", args.ttype = "N"), LAMBDA l :
    IF l.e.threw THEN Thrown(l.e)
    ELSE IF l.ret = Null THEN Ret(l.e, Null)
    ELSE Ret(l.e, [kind |-> objName,
                   role |-> IF objName = "fp_text"
                            THEN (IF args.ttype = "P" THEN "reference" ELSE "value")
                            ELSE "",
                   layer |-> l.ret,
                   hide |-> args.display = "none",
                   mirror |-> l.ret.pre = "B"]))

\* /^M\s*([-\d.\s]+)A\s*([-\d.\s]+)$/ on the path's command letters
arcPathMatch(path) == path = <<"M", "A">>

\* args.nanCenter: computeArc yields a NaN centre for the arc's geometry
convertArc(args, e, objName) ==
  With(getLayerName(args.layer, e), LAMBDA l :
    IF l.e.threw THEN Thrown(l.e)
    ELSE IF l.ret = Null THEN Ret(l.e, Null)
    ELSE IF ~arcPathMatch(args.path) THEN Ret(l.e, Null)
    ELSE IF args.nanCenter THEN Ret(l.e, Null)
    ELSE Ret(l.e, [kind |-> objName, layer |-> l.ret]))

isRectangle(points) ==
  /\ Len(points) = 8
  /\ \/ (points[1] = points[3] /\ points[4] = points[6]
         /\ points[5] = points[7] /\ points[8] = points[2])
     \/ (points[2] = points[4] /\ points[3] = points[5]
         /\ points[6] = points[8] /\ points[7] = points[1])

padShapes ==
  ("ELLIPSE" :> "circle" @@ "RECT" :> "rect" @@ "OVAL" :> "oval" @@ "POLYGON" :> "custom")

padShape(shape) == IF shape \in DOMAIN padShapes THEN padShapes[shape] ELSE undefined

padLayers ==
  ( <<1>> :> <<LayerName("F", 0, "Cu"), LayerName("F", 0, "Paste"), LayerName("F", 0, "Mask")>>
 @@ <<2>> :> <<LayerName("B", 0, "Cu"), LayerName("B", 0, "Paste"), LayerName("B", 0, "Mask")>>
 @@ <<1, 1>> :> <<LayerName("*", 0, "Cu"), LayerName("*", 0, "Mask")>> )

padActualShape(args) ==
  IF padShape(args.shape) = "custom" /\ isRectangle(args.points) THEN "RECT" ELSE args.shape

Min4(a, b, c, d) == -Max(Max(-a, -b), Max(-c, -d))

Max4(a, b, c, d) == Max(Max(a, b), Max(c, d))

abs(x) == IF x < 0 THEN -x ELSE x

\* Angles are whole degrees
rectangleSizeOf(width, height, rotation) ==
  IF abs(rotation) % 180 = 90 THEN <<height, width>> ELSE <<width, height>>

rectangleSize(points, rotation) ==
  rectangleSizeOf(
    Max4(points[1], points[3], points[5], points[7])
      - Min4(points[1], points[3], points[5], points[7]),
    Max4(points[2], points[4], points[6], points[8])
      - Min4(points[2], points[4], points[6], points[8]),
    rotation)

\* [actualWidth, actualHeight]
padActualSize(args) ==
  IF padShape(args.shape) = "custom" /\ isRectangle(args.points)
  THEN rectangleSize(args.points, args.rotation)
  ELSE <<args.width, args.height>>

\* [realWidth, realHeight]
padRealSize(actual) == IF actual[1] > actual[2] THEN <<actual[2], actual[1]>> ELSE actual

\* Variant: the rotation is left alone when width and height are swapped
padRealRotationKept(actual, rotation) == rotation

padRealRotation(actual, rotation) == IF actual[1] > actual[2] THEN rotation - 90 ELSE rotation

\* 0.01 mm
minPadSize == 1000

padSize(real) == <<Max(kiUnits(real[1]), minPadSize), Max(kiUnits(real[2]), minPadSize)>>

\* kiAngle of a number: angles above 180 are brought into (-180, 180]
kiAngle(angle) == IF angle > 180 THEN -(360 - angle) ELSE angle

convertPad(args, e) ==
  IF padShape(padActualShape(args)) = "custom" /\ Len(args.points) = 0 THEN Ret(e, Null)
  ELSE With(getNetId(e, args.net), LAMBDA n :
    \* ...layers[layerId] of an id the pad's table lacks: a TypeError
    IF args.layerId \notin DOMAIN padLayers THEN Thrown([n.e EXCEPT !.threw = TRUE])
    ELSE Ret(n.e, [kind |-> "pad",
                   ptype |-> IF kiUnits(args.holeRadius) > 0 THEN "thru_hole" ELSE "smd",
                   shape |-> padShape(padActualShape(args)),
                   rotation |-> kiAngle(padRealRotation(padActualSize(args), args.rotation)),
                   size |-> padSize(padRealSize(padActualSize(args))),
                   layers |-> padLayers[args.layerId],
                   net |-> IF n.ret > 0 THEN PadNetChild(n.ret, args.net) ELSE Null,
                   primitives |-> padShape(padActualShape(args)) = "custom"]))

NpthPad(size) ==
  [kind |-> "pad", ptype |-> "np_thru_hole", shape |-> "circle",
   rotation |-> Null, size |-> <<size, size>>,
   layers |-> <<LayerName("*", 0, "Cu"), LayerName("*", 0, "Mask")>>,
   net |-> Null, primitives |-> FALSE]

FpText(role, layer) ==
  [kind |-> "fp_text", role |-> role, layer |-> layer, hide |-> FALSE, mirror |-> FALSE]

Module(name, locked, attrs, shapes) ==
  [kind |-> "module", name |-> name, locked |-> locked, attrs |-> attrs, shapes |-> shapes]

VirtualModule(name, locked, pad) ==
  Module(name, locked, <<"virtual">>,
         <<FpText("reference", LayerName("F", 0, "SilkS")),
           FpText("value", LayerName("F", 0, "SilkS")), pad>>)

convertPadToVia(args, e) ==
  IF args.shape # "ELLIPSE"
  THEN With(convertPad(args, e), LAMBDA p :
         IF p.e.threw THEN Thrown(p.e)
         ELSE Ret(p.e, VirtualModule("AutoGenerated:Pad", args.locked, p.ret)))
  ELSE With(getNetId(e, args.net), LAMBDA n :
         Ret(n.e, [kind |-> "via", net |-> NetChild(n.ret)]))

convertLibHole(args) == NpthPad(kiUnits(args.radius) * 2)

convertCircle(args, e, type) ==
  With(getLayerName(args.layer, e), LAMBDA l :
    IF l.e.threw THEN Thrown(l.e)
    ELSE IF l.ret = Null THEN Ret(l.e, Null)
    ELSE Ret(l.e, [kind |-> type, layer |-> l.ret]))

\* path.indexOf('A') >= 0: null, else the polygon's points (not modelled)
pathToPolygon(path) ==
  IF \E k \in 1..Len(path) : path[k] = "A" THEN Null ELSE [kind |-> "pts"]

convertPolygon(args, e) ==
  IF args.rtype # "solid" THEN Ret(e, Null)
  ELSE With(getLayerName(args.layer, e), LAMBDA l :
    IF l.e.threw THEN Thrown(l.e)
    ELSE IF l.ret = Null THEN Ret(l.e, Null)
    ELSE IF pathToPolygon(args.path) = Null THEN Ret(l.e, Null)
    ELSE Ret(l.e, [kind |-> "fp_poly", layer |-> l.ret]))

\* A converter's single node (or null) as the one-element list that is pushed
Single(r) == Ret(r.e, <<r.ret>>)

\* One iteration of convertLib's loop over the footprint's shapes: what is
\* pushed onto the module's shape list (nothing for an unsupported type)
convertLibShape(shape, e) ==
  IF shape.type = "TRACK" THEN convertTrack(shape, e, "fp_line")
  ELSE IF shape.type = "TEXT" THEN Single(convertText(shape, e, "fp_text"))
  ELSE IF shape.type = "ARC" THEN Single(convertArc(shape, e, "fp_arc"))
  ELSE IF shape.type = "HOLE" THEN Ret(e, <<convertLibHole(shape)>>)
  ELSE IF shape.type = "PAD" THEN Single(convertPad(shape, e))
  ELSE IF shape.type = "CIRCLE" THEN Single(convertCircle(shape, e, "fp_circle"))
  ELSE IF shape.type = "SOLIDREGION" THEN Single(convertPolygon(shape, e))
  ELSE Ret(e, <<>>)

\* for (const shape of shapeList): the shapes pushed so far; a throw ends it
RECURSIVE convertLibShapes(_, _, _)
convertLibShapes(shapeList, e, shapes) ==
  IF shapeList = <<>> THEN Ret(e, shapes)
  ELSE With(convertLibShape(Head(shapeList), e), LAMBDA r :
         IF r.e.threw THEN Thrown(r.e)
         ELSE convertLibShapes(Tail(shapeList), r.e, shapes \o r.ret))

\* Variant: any pad marks the module, whatever its kind
isSmdAnyPad(shapes) ==
  \E k \in 1..Len(shapes) : shapes[k] # Null /\ shapes[k].kind = "pad"

isSmd(shapes) ==
  \E k \in 1..Len(shapes) :
    shapes[k] # Null /\ shapes[k].kind = "pad" /\ shapes[k].ptype = "smd"

libModule(args, shapes) ==
  Module("easyeda", args.locked, IF isSmd(shapes) THEN <<"smd">> ELSE <<>>, shapes)

convertLib(args, e) ==
  With(convertLibShapes(args.shapes, e, <<>>), LAMBDA r :
    IF r.e.threw THEN Thrown(r.e)
    ELSE Ret(r.e, libModule(args,
                    Append(r.ret, FpText("user", LayerName("Cmts", 0, "User"))))))

convertCopperArea(args, e) ==
  With(getNetId(e, args.net), LAMBDA n :
  With(getLayerName(args.layer, n.e), LAMBDA l :
    IF l.e.threw THEN Thrown(l.e)
    ELSE IF l.ret = Null THEN Ret(l.e, Null)
    ELSE Ret(l.e, [kind |-> "zone", net |-> NetChild(n.ret), net_name |-> args.net,
                   layer |-> l.ret, keepout |-> FALSE])))

convertSolidRegion(args, e) ==
  With(getLayerName(args.layer, e), LAMBDA l :
    IF l.e.threw THEN Thrown(l.e)
    ELSE IF l.ret = Null THEN Ret(l.e, Null)
    ELSE With(getNetId(l.e, args.net), LAMBDA n :
      IF pathToPolygon(args.path) = Null THEN Ret(n.e, Null)
      ELSE IF args.rtype = "cutout"
        THEN Ret(n.e, [kind |-> "zone", net |-> NetChild(n.ret), net_name |-> "",
                       layer |-> l.ret, keepout |-> TRUE])
      ELSE IF args.rtype \in {"solid", "npth"}
        THEN Ret(n.e, [kind |-> "gr_poly", layer |-> l.ret])
      ELSE Ret(n.e, Null)))

convertHole(args) ==
  VirtualModule("AutoGenerated:MountingHole", args.locked, NpthPad(kiUnits(args.radius) * 2))

\* What convertShape returns: a list of nodes, or Null for a shape type it
\* does not know
List(items) == [kind |-> "list", items |-> items]

ListOf(r) == Ret(r.e, IF r.e.threw THEN Null ELSE List(r.ret))

convertShape(shape, e) ==
  IF shape.type = "VIA" THEN ListOf(Single(convertVia(shape, e)))
  ELSE IF shape.type = "TRACK" THEN ListOf(convertTrack(shape, e, "segment"))
  ELSE IF shape.type = "TEXT" THEN ListOf(Single(convertText(shape, e, "gr_text")))
  ELSE IF shape.type = "ARC" THEN ListOf(Single(convertArc(shape, e, "gr_arc")))
  ELSE IF shape.type = "COPPERAREA" THEN ListOf(Single(convertCopperArea(shape, e)))
  ELSE IF shape.type = "SOLIDREGION" THEN ListOf(Single(convertSolidRegion(shape, e)))
  ELSE IF shape.type = "CIRCLE" THEN ListOf(Single(convertCircle(shape, e, "gr_circle")))
  ELSE IF shape.type = "HOLE" THEN Ret(e, List(<<convertHole(shape)>>))
  ELSE IF shape.type = "LIB" THEN ListOf(Single(convertLib(shape, e)))
  ELSE IF shape.type = "PAD" THEN ListOf(Single(convertPadToVia(shape, e)))
  ELSE Ret(e, Null)

----------------------------------------------------------------------------
\* Shape records (the fields the converters read) and the boards explored

Via(net) == [type |-> "VIA", net |-> net]
TrackOfWidth(width, layer, net, coords, locked) ==
  [type |-> "TRACK", width |-> width, layer |-> layer, net |-> net, coords |-> coords,
   locked |-> locked]
Track(layer, net, coords, locked) == TrackOfWidth(100, layer, net, coords, locked)
Text(ttype, layer, display) ==
  [type |-> "TEXT", ttype |-> ttype, layer |-> layer, display |-> display]
Arc(layer, path, nanCenter) ==
  [type |-> "ARC", layer |-> layer, path |-> path, nanCenter |-> nanCenter]
PadOfSize(shape, layerId, net, holeRadius, points, width, height, rotation) ==
  [type |-> "PAD", shape |-> shape, layerId |-> layerId, net |-> net,
   holeRadius |-> holeRadius, points |-> points, locked |-> FALSE,
   width |-> width, height |-> height, rotation |-> rotation]
Pad(shape, layerId, net, holeRadius, points) ==
  PadOfSize(shape, layerId, net, holeRadius, points, 600, 400, 0)
Hole == [type |-> "HOLE", radius |-> 200, locked |-> FALSE]
Circle(layer) == [type |-> "CIRCLE", layer |-> layer]
CopperArea(layer, net) == [type |-> "COPPERAREA", layer |-> layer, net |-> net]
SolidRegion(layer, net, path, rtype) ==
  [type |-> "SOLIDREGION", layer |-> layer, net |-> net, path |-> path, rtype |-> rtype]
Lib(shapes) == [type |-> "LIB", locked |-> FALSE, shapes |-> shapes]
Unsupported == [type |-> "RECT"]

Line1 == <<400000, 300000>>
Line2 == <<400000, 300000, 401000, 300000>>
Line3 == <<400000, 300000, 401000, 300000, 401000, 302000>>
Square == <<0, 0, 10, 0, 10, 10, 0, 10>>
Wide == <<0, 0, 900, 0, 900, 200, 0, 200>>
Straight == <<"M", "L", "L">>
Curved == <<"M", "A">>

Vias == {Via("A"), Via("B"), Via(""), Via(undefined)}

Tracks ==
  { Track(<<1>>, "A", Line3, FALSE), Track(<<3>>, "B", Line2, TRUE),
    Track(<<2, 1>>, "", Line2, FALSE), Track(<<1, 5, 0>>, "B", Line2, FALSE),
    Track(<<9>>, "A", Line2, FALSE) }

Graphics ==
  { Text("L", <<4>>, ""), Arc(<<1, 0>>, Curved, FALSE), Arc(<<1>>, Straight, FALSE),
    Circle(<<1, 2>>), Circle(<<1, 9, 9>>), Hole, Unsupported }

Areas ==
  { CopperArea(<<2>>, "A"), CopperArea(<<1, 0, 0>>, "B"),
    SolidRegion(<<2, 2>>, "B", Straight, "cutout"),
    SolidRegion(<<1>>, "A", Curved, "solid"),
    SolidRegion(<<2>>, "B", Straight, "none"),
    SolidRegion(<<9, 9>>, "A", Straight, "solid") }

Pads == { Pad("ELLIPSE", <<1, 1>>, "A", 5, <<>>), Pad("RECT", <<1>>, "B", 0, <<>>) }

Libs ==
  { Lib(<<Pad("RECT", <<1>>, "A", 0, <<>>), Text("N", <<3>>, "none"),
          Track(<<3>>, "B", Line2, FALSE),
          PadOfSize("OVAL", <<2>>, "A", 0, <<>>, 3, 500, 270)>>),
    Lib(<<SolidRegion(<<9>>, "", Straight, "cutout"), Pad("POLYGON", <<1, 1>>, "B", 3, Square),
          Hole, Unsupported, SolidRegion(<<2, 3>>, "", Straight, "solid")>>),
    Lib(<<Pad("POLYGON", <<1>>, "A", 0, <<>>), Arc(<<1, 5, 0>>, Curved, FALSE),
          Circle(<<2, 1>>), Pad("ELLIPSE", <<3>>, "B", 4, <<>>), Circle(<<1>>)>>),
    Lib(<<Track(<<1, 2, 0>>, "A", Line3, FALSE), Circle(<<0>>), Text("P", <<1>>, "")>>) }

Shapes == Vias \cup Tracks \cup Graphics \cup Areas \cup Pads \cup Libs

\* The shape lists of at most n records
RECURSIVE ListsUpTo(_)
ListsUpTo(n) ==
  IF n = 0 THEN {<<>>}
  ELSE LET shorter == ListsUpTo(n - 1) IN
       shorter \cup {Append(l, s) : l \in {t \in shorter : Len(t) = n - 1}, s \in Shapes}

ShapeLists == ListsUpTo(MaxShapes)

\* input.routerRule as the document loader supplies it: absent, or with the
\* board's net names (distinct, none empty)
RouterRules ==
  { [present |-> FALSE, nets |-> <<>>], [present |-> TRUE, nets |-> <<>>],
    [present |-> TRUE, nets |-> <<"B">>] }

----------------------------------------------------------------------------
\* State

VARIABLES
  shape,            \* input.shape, the board's shape records
  routerRule,       \* input.routerRule; its nets array is the caller's object
  pc,               \* "idle": no call in progress; "map": inside input.shape.map
  conversionState,  \* { nets, innerLayers } of the call in progress
  seeded,           \* the net table as the call in progress seeded it
  i,                \* index of the shape the map callback is invoked on next
  mapped,           \* what the callbacks invoked so far returned or threw
  netLog,           \* getNetId calls of the call in progress: <<name, id>>
  layerLog,         \* getLayerName calls of the call in progress: id
  returned          \* outcome of each finished call of convertBoardToArray

vars ==
  <<shape, routerRule, pc, conversionState, seeded, i, mapped, netLog, layerLog, returned>>

Rejection == [kind |-> "rejected"]

Init ==
  /\ shape \in ShapeLists
  /\ routerRule \in RouterRules
  /\ pc = "idle"
  /\ conversionState = [nets |-> <<>>, innerLayers |-> 0]
  /\ seeded = <<>>
  /\ i = 1
  /\ mapped = <<>>
  /\ netLog = <<>>
  /\ layerLog = <<>>
  /\ returned = <<>>

\* const { nets } = input.routerRule || { nets: [] }; nets.unshift('')
seedNets(rule) == IF rule.present THEN <<"">> \o rule.nets ELSE <<"">>

\* nets is input.routerRule.nets itself: what is written to it stays
aliasedRule(rule, nets) == IF rule.present THEN [rule EXCEPT !.nets = nets] ELSE rule

\* convertBoardToArray up to the call of input.shape.map
Call ==
  /\ pc = "idle"
  /\ Len(returned) < MaxRuns
  /\ conversionState' = [nets |-> seedNets(routerRule), innerLayers |-> 0]
  /\ routerRule' = aliasedRule(routerRule, conversionState'.nets)
  /\ seeded' = conversionState'.nets
  /\ pc' = "map"
  /\ i' = 1
  /\ mapped' = <<>>
  /\ netLog' = <<>>
  /\ layerLog' = <<>>
  /\ UNCHANGED <<shape, returned>>

\* What the callback leaves behind: the conversion state (and with it the
\* rule's array), and its promise, fulfilled with a value or rejected
Settle(r) ==
  /\ conversionState' = r.e.st
  /\ routerRule' = aliasedRule(routerRule, r.e.st.nets)
  /\ netLog' = r.e.netLog
  /\ layerLog' = r.e.layerLog
  /\ mapped' = Append(mapped, IF r.e.threw THEN Rejection
                              ELSE [kind |-> "value", value |-> r.ret])

\* One invocation of the map callback, async (shape) => convertShape(shape,
\* conversionState): it runs to its end, and a throw rejects its promise only
MapShape ==
  /\ pc = "map"
  /\ i <= Len(shape)
  /\ Settle(convertShape(shape[i], Exec(conversionState, FALSE, netLog, layerLog)))
  /\ i' = i + 1
  /\ UNCHANGED <<shape, pc, seeded, returned>>

\* flatten(await Promise.all(...)): the lists concatenated; a null among them
\* (an unsupported shape type) is kept as a null element
RECURSIVE flatten(_)
flatten(arr) ==
  IF arr = <<>> THEN <<>>
  ELSE (IF Head(arr).value = Null THEN <<Null>> ELSE Head(arr).value.items)
       \o flatten(Tail(arr))

\* [...].filter((obj) => obj != null)
RECURSIVE filterNonNull(_)
filterNonNull(objs) ==
  IF objs = <<>> THEN <<>>
  ELSE (IF Head(objs) = Null THEN <<>> ELSE <<Head(objs)>>) \o filterNonNull(Tail(objs))

Layer(num, name, type) == [num |-> num, name |-> name, type |-> type]

layerTable(innerLayers) ==
  <<Layer(0, LayerName("F", 0, "Cu"), "signal")>>
  \o [k \in 1..innerLayers |-> Layer(k, InCu(k), "signal")]
  \o << Layer(31, LayerName("B", 0, "Cu"), "signal"),
        Layer(32, LayerName("B", 0, "Adhes"), "user"),
        Layer(33, LayerName("F", 0, "Adhes"), "user"),
        Layer(34, LayerName("B", 0, "Paste"), "user"),
        Layer(35, LayerName("F", 0, "Paste"), "user"),
        Layer(36, LayerName("B", 0, "SilkS"), "user"),
        Layer(37, LayerName("F", 0, "SilkS"), "user"),
        Layer(38, LayerName("B", 0, "Mask"), "user"),
        Layer(39, LayerName("F", 0, "Mask"), "user"),
        Layer(40, LayerName("Dwgs", 0, "User"), "user"),
        Layer(41, LayerName("Cmts", 0, "User"), "user"),
        Layer(42, LayerName("Eco1", 0, "User"), "user"),
        Layer(43, LayerName("Eco2", 0, "User"), "user"),
        Layer(44, LayerName("Edge", 0, "Cuts"), "user"),
        Layer(45, LayerName("Margin", 0, ""), "user"),
        Layer(46, LayerName("B", 0, "CrtYd"), "user"),
        Layer(47, LayerName("F", 0, "CrtYd"), "user"),
        Layer(48, LayerName("B", 0, "Fab"), "user"),
        Layer(49, LayerName("F", 0, "Fab"), "user") >>

netEntries(nets) == [k \in 1..Len(nets) |-> [kind |-> "net", idx |-> k - 1, name |-> nets[k]]]

\* Variant: the static layer table, whatever internal layers were discovered
DocumentStaticLayers(st, shapes) ==
  [kind |-> "kicad_pcb",
   layers |-> layerTable(0),
   objs |-> filterNonNull(netEntries(st.nets) \o shapes)]

Document(st, shapes) ==
  [kind |-> "kicad_pcb",
   layers |-> layerTable(st.innerLayers),
   objs |-> filterNonNull(netEntries(st.nets) \o shapes)]

anyRejected(arr) == \E k \in 1..Len(arr) : arr[k] = Rejection

\* The rest of convertBoardToArray, once the map has invoked every callback:
\* Promise.all rejects if a callback threw, else the document is returned
Return ==
  /\ pc = "map"
  /\ i > Len(shape)
  /\ returned' = Append(returned,
       IF anyRejected(mapped) THEN Rejection
       ELSE Document(conversionState, flatten(mapped)))
  /\ pc' = "idle"
  /\ UNCHANGED <<shape, routerRule, conversionState, seeded, i, mapped, netLog, layerLog>>

Next == Call \/ MapShape \/ Return

Spec == Init /\ [][Next]_vars

----------------------------------------------------------------------------
\* convertBoardToArray as a whole, on a seeded net table and a shape list

RECURSIVE mapAll(_, _, _)
mapAll(shapes, e, out) ==
  IF shapes = <<>> THEN [e |-> e, mapped |-> out]
  ELSE With(convertShape(Head(shapes), [e EXCEPT !.threw = FALSE]), LAMBDA r :
         mapAll(Tail(shapes), r.e,
                Append(out, IF r.e.threw THEN Rejection
                            ELSE [kind |-> "value", value |-> r.ret])))

Settled(m) ==
  IF anyRejected(m.mapped) THEN Rejection ELSE Document(m.e.st, flatten(m.mapped))

convertBoardToArray(nets, shapes) ==
  Settled(mapAll(shapes, Exec([nets |-> nets, innerLayers |-> 0], FALSE, <<>>, <<>>), <<>>))

----------------------------------------------------------------------------
\* Vocabulary of the properties

Current == Exec(conversionState, FALSE, netLog, layerLog)

NetNames == {"A", "B"}

Distinct(seq) == \A a, b \in 1..Len(seq) : seq[a] = seq[b] => a = b

IsPrefix(p, seq) == Len(p) <= Len(seq) /\ SubSeq(seq, 1, Len(p)) = p

Holds(seq, x) == \E k \in 1..Len(seq) : seq[k] = x

Remove(seq, j) == SubSeq(seq, 1, j - 1) \o SubSeq(seq, j + 1, Len(seq))

\* A list of nodes with nothing to emit in it
NoNode(items) == \A k \in 1..Len(items) : items[k] = Null

----------------------------------------------------------------------------
\* Net registry

\* C1: within one conversion, any two getNetId calls for the same non-empty
\* net name return the same id, whatever calls for other names (from board
\* level or footprint shapes) were made in between.
C1_SameNameSameId ==
  \A a, b \in 1..Len(netLog) :
    (netLog[a][1] = netLog[b][1] /\ ~falsy(netLog[a][1])) => netLog[a][2] = netLog[b][2]

\* C1 witness: a name resolved, then another name, then the first name again,
\* with the same id both times.
C1_Witness ==
  \E a, b, c \in 1..Len(netLog) :
    /\ a < b /\ b < c
    /\ ~falsy(netLog[a][1])
    /\ netLog[c][1] = netLog[a][1]
    /\ netLog[b][1] # netLog[a][1] /\ ~falsy(netLog[b][1])
    /\ netLog[c][2] = netLog[a][2]

\* C2: getNetId resolves the empty net name "" to id 0 and an absent net name
\* to id -1.
C2_EmptyIsZeroAbsentIsMinusOne ==
  \A k \in 1..Len(netLog) :
    /\ netLog[k][1] = "" => netLog[k][2] = 0
    /\ netLog[k][1] = undefined => netLog[k][2] = -1

\* C3: once convertBoardToArray has seeded the net table, the table holds
\* distinct names with the empty string at index 0, and no step of the
\* conversion removes, reorders or rewrites an entry (the table before the
\* step is a prefix of the table after it).
C3_AppendOnlyDistinct ==
  /\ [](pc = "map" =>
          /\ conversionState.nets[1] = ""
          /\ Distinct(conversionState.nets))
  /\ [][(pc = "map" /\ pc' = "map") =>
          IsPrefix(conversionState.nets, conversionState'.nets)]_vars

\* C4: converting a via whose net name is non-empty appends the name at the
\* next free index when the table does not hold it (the table grows by
\* exactly one) and leaves the table unchanged when it does; either way the
\* via node's net field is the index of the name in the table.
C4_ViaInternsNet ==
  [][(pc = "map" /\ pc' = "map" /\ i' = i + 1
        /\ shape[i].type = "VIA" /\ ~falsy(shape[i].net)) =>
      LET name == shape[i].net
          before == conversionState.nets
          after == conversionState'.nets
          node == mapped'[i].value.items[1] IN
      /\ node.kind = "via"
      /\ IF Holds(before, name)
         THEN after = before /\ before[node.net.id + 1] = name
         ELSE /\ after = Append(before, name)
              /\ Len(after) = Len(before) + 1
              /\ node.net.id = Len(before)]_vars

\* C4 witness: the first shape is a via whose net the seeded table lacked;
\* the table is the seeded one with the name appended, and the via carries
\* the new index.
C4_Witness ==
  /\ pc = "map" /\ i = 2
  /\ shape[1].type = "VIA" /\ ~falsy(shape[1].net)
  /\ ~Holds(seeded, shape[1].net)
  /\ Len(seeded) = 2
  /\ conversionState.nets = Append(seeded, shape[1].net)
  /\ mapped[1].value.items[1].net.id = 2

----------------------------------------------------------------------------
\* Layer resolver

\* The largest internal-layer index among the ids resolved so far, 0 if none
InnerResolved(log) ==
  {parseInt(log[k]) - 20 : k \in {j \in 1..Len(log) :
      log[j] \notin DOMAIN layers /\ parseInt(log[j]) >= 21 /\ parseInt(log[j]) <= 50}}

LargestInner(log) ==
  IF InnerResolved(log) = {} THEN 0
  ELSE CHOOSE x \in InnerResolved(log) : \A y \in InnerResolved(log) : y <= x

\* C5: getLayerName maps a layer id k in 21..50 to internal copper layer
\* k - 20 (21 gives In1.Cu); during a conversion innerLayers equals the
\* largest internal-layer index resolved so far (0 when none was) and never
\* decreases from one step to the next.
C5_InnerLayers ==
  /\ [](/\ \A k \in 21..50 :
             /\ ~getLayerName(Digits(k), Current).e.threw
             /\ getLayerName(Digits(k), Current).ret = [pre |-> "In", n |-> k - 20, suf |-> "Cu"]
        /\ pc = "map" => conversionState.innerLayers = LargestInner(layerLog))
  /\ [][(pc = "map" /\ pc' = "map") =>
          conversionState'.innerLayers >= conversionState.innerLayers]_vars

\* C5 witness: layer 22 was resolved and layer 21 after it, and innerLayers
\* is still 2.
C5_Witness ==
  /\ pc = "map"
  /\ \E a, b \in 1..Len(layerLog) : a < b /\ layerLog[a] = <<2, 2>> /\ layerLog[b] = <<2, 1>>
  /\ conversionState.innerLayers = 2

\* Records of each kind whose converter calls getLayerName, on layer id
BoardProbes(id) ==
  { Track(id, "A", Line3, FALSE), Text("L", id, ""), Arc(id, Curved, FALSE), Circle(id),
    CopperArea(id, "A"), SolidRegion(id, "A", Straight, "solid") }

FootprintProbes(id) ==
  { Track(id, "A", Line3, FALSE), Text("N", id, ""), Arc(id, Curved, FALSE), Circle(id),
    SolidRegion(id, "A", Straight, "solid") }

\* C6: for a layer id in 99..199 getLayerName returns null without raising,
\* and each converter that calls it (track, text, arc, circle, copper area,
\* solid region, footprint polygon), at board level or in a footprint, then
\* yields no node for the shape and does not fail.
C6_SkipBandDropsShape ==
  /\ \A k \in 99..199 :
       /\ ~getLayerName(Digits(k), Current).e.threw
       /\ getLayerName(Digits(k), Current).ret = Null
  /\ \A k \in {99, 150, 199} :
       /\ \A s \in BoardProbes(Digits(k)) :
            /\ ~convertShape(s, Current).e.threw
            /\ NoNode(convertShape(s, Current).ret.items)
       /\ \A s \in FootprintProbes(Digits(k)) :
            /\ ~convertLibShape(s, Current).e.threw
            /\ NoNode(convertLibShape(s, Current).ret)
  /\ \A j \in 1..Len(mapped) :
       (/\ shape[j].type \in {"TRACK", "TEXT", "ARC", "CIRCLE", "COPPERAREA", "SOLIDREGION"}
        /\ parseInt(shape[j].layer) >= 99 /\ parseInt(shape[j].layer) <= 199)
       => (mapped[j] # Rejection /\ NoNode(mapped[j].value.items))

\* C6 witness: a track on layer 150 has been converted: its promise is
\* fulfilled with an empty list.
C6_Witness ==
  /\ pc = "map" /\ i = 2
  /\ shape[1].type = "TRACK" /\ shape[1].layer = <<1, 5, 0>>
  /\ mapped[1] = [kind |-> "value", value |-> List(<<>>)]

\* An id in neither the static table nor the bands 21..50 and 99..199
UnknownLayer(id) ==
  /\ id \notin DOMAIN layers
  /\ ~(parseInt(id) >= 21 /\ parseInt(id) <= 50)
  /\ ~(parseInt(id) >= 99 /\ parseInt(id) <= 199)

\* The shape resolves its layer through getLayerName: every track, text, arc,
\* circle, copper area and board-level solid region does; in a footprint a
\* solid region does when its type is 'solid'
ResolvesLayer(s, nested) ==
  \/ s.type \in {"TRACK", "TEXT", "ARC", "CIRCLE"}
  \/ ~nested /\ s.type \in {"COPPERAREA", "SOLIDREGION"}
  \/ nested /\ s.type = "SOLIDREGION" /\ s.rtype = "solid"

HasUnknownLayer(s) ==
  \/ ResolvesLayer(s, FALSE) /\ UnknownLayer(s.layer)
  \/ /\ s.type = "LIB"
     /\ \E k \in 1..Len(s.shapes) :
          ResolvesLayer(s.shapes[k], TRUE) /\ UnknownLayer(s.shapes[k].layer)

UnknownProbes == {<<0>>, <<9>>, <<1, 6>>, <<2, 0>>, <<5, 1>>, <<9, 8>>, <<2, 0, 0>>}

\* Records that would be dropped for another reason had the layer resolved
BoardDropProbes(id) ==
  { Arc(id, Straight, FALSE), Arc(id, Curved, TRUE),
    SolidRegion(id, "A", Curved, "solid"), SolidRegion(id, "A", Straight, "none") }

\* C7: if a shape of the input, top-level or in a footprint, that resolves
\* its layer through getLayerName carries an id outside the static table and
\* both bands, every call of convertBoardToArray on the input fails and
\* returns no document, wherever the shape stands in the list.
C7_UnknownLayerIsFatal ==
  /\ (\E j \in 1..Len(shape) : HasUnknownLayer(shape[j]))
       => \A k \in 1..Len(returned) : returned[k] = Rejection
  /\ \A id \in UnknownProbes :
       /\ UnknownLayer(id)
       /\ \A s \in BoardProbes(id) \cup BoardDropProbes(id) : convertShape(s, Current).e.threw
       /\ \A s \in FootprintProbes(id) \cup {Arc(id, Straight, FALSE)} :
            convertLibShape(s, Current).e.threw

\* C7 witness: the second of two shapes has an unknown layer id, the first
\* converts well, and the call was rejected.
C7_Witness ==
  /\ Len(shape) = 2
  /\ ~HasUnknownLayer(shape[1]) /\ HasUnknownLayer(shape[2])
  /\ Len(returned) >= 1 /\ returned[1] = Rejection
  /\ mapped[1] # Rejection

----------------------------------------------------------------------------
\* Dropped shapes, repeated runs, order of conversion

\* The callback's promise was fulfilled with nothing to emit
Dropped(m) == m # Rejection /\ (m.value = Null \/ NoNode(m.value.items))

\* What a finished map settles to
Outcome(m, st) == IF anyRejected(m) THEN Rejection ELSE Document(st, flatten(m))

\* The net table and the shape nodes of a document, layer table left out
NetsAndNodes(doc) == IF doc = Rejection THEN doc ELSE [objs |-> doc.objs]

\* C8: a shape that is dropped as recoverable (unsupported layer band,
\* unsupported SOLIDREGION subtype, curved SOLIDREGION path, malformed arc
\* path) yields no node, and the net table and the nodes of the other shapes,
\* net ids included, are those of the conversion of the input without it.
C8_DroppedShapeLeavesNoTrace ==
  (pc = "map" /\ i > Len(shape)) =>
    \A j \in 1..Len(shape) :
      Dropped(mapped[j]) =>
        NetsAndNodes(Outcome(mapped, conversionState))
          = NetsAndNodes(convertBoardToArray(seeded, Remove(shape, j)))

\* C9: two calls of convertBoardToArray on the same input return identical
\* documents: same net table, same layer table, same nodes in the same order.
C9_SecondRunIdentical ==
  Len(returned) >= 2 => returned[2] = returned[1]

\* The first call of getNetId for the name
FirstUse(log, name) ==
  CHOOSE k \in 1..Len(log) : log[k][1] = name /\ \A j \in 1..(k - 1) : log[j][1] # name

Logged(log, name) == \E k \in 1..Len(log) : log[k][1] = name

\* The shapes before shape[i] were converted one after the other, each on
\* the state the one before it left
C10_Sequential ==
  pc = "map" =>
    With(mapAll(SubSeq(shape, 1, i - 1),
                Exec([nets |-> seeded, innerLayers |-> 0], FALSE, <<>>, <<>>), <<>>),
         LAMBDA m : /\ m.mapped = mapped
                    /\ m.e.st = conversionState
                    /\ m.e.netLog = netLog
                    /\ m.e.layerLog = layerLog)

\* Of two names the call interned, the one used first has the smaller id
C10_FirstOccurrenceOrder ==
  \A a, b \in NetNames :
    (/\ ~Holds(seeded, a) /\ ~Holds(seeded, b)
     /\ Logged(netLog, a) /\ Logged(netLog, b)
     /\ FirstUse(netLog, a) < FirstUse(netLog, b))
    => indexOf(conversionState.nets, a) < indexOf(conversionState.nets, b)

\* The ids a returned document gives the name
NetIds(doc, name) ==
  {doc.objs[k].idx : k \in {j \in 1..Len(doc.objs) :
      doc.objs[j].kind = "net" /\ doc.objs[j].name = name}}

\* C10: convertBoardToArray converts the top-level shapes one at a time in
\* source order, no conversion interleaved with another, so that the names
\* it interns get their ids in order of first occurrence and every run on
\* the same input gives each name the same id.
C10_SourceOrderDeterministic ==
  /\ C10_Sequential
  /\ C10_FirstOccurrenceOrder
  /\ \A k, l \in 1..Len(returned) :
       (returned[k] # Rejection /\ returned[l] # Rejection)
       => \A n \in NetNames : NetIds(returned[k], n) = NetIds(returned[l], n)

----------------------------------------------------------------------------
\* Document assembly

\* The internal-layer indexes of the shapes of the input that resolve their
\* layer, top-level or in a footprint
InnerOf(s, nested) ==
  IF ResolvesLayer(s, nested) /\ s.layer \notin DOMAIN layers
     /\ parseInt(s.layer) >= 21 /\ parseInt(s.layer) <= 50
  THEN {parseInt(s.layer) - 20} ELSE {}

InnerOfInput(shapes) ==
  UNION { InnerOf(shapes[j], FALSE)
          \cup (IF shapes[j].type = "LIB"
                THEN UNION {InnerOf(shapes[j].shapes[k], TRUE) : k \in 1..Len(shapes[j].shapes)}
                ELSE {}) : j \in 1..Len(shapes) }

LargestOf(set) == IF set = {} THEN 0 ELSE CHOOSE x \in set : \A y \in set : y <= x

FCu == [num |-> 0, name |-> [pre |-> "F", n |-> 0, suf |-> "Cu"], type |-> "signal"]

BCu == [num |-> 31, name |-> [pre |-> "B", n |-> 0, suf |-> "Cu"], type |-> "signal"]

ListsInnerLayers(table, K) ==
  /\ table[1] = FCu
  /\ \A k \in 1..K :
       table[1 + k] = [num |-> k, name |-> [pre |-> "In", n |-> k, suf |-> "Cu"], type |-> "signal"]
  /\ table[K + 2] = BCu
  /\ \A k \in (K + 3)..Len(table) : table[k].name.pre # "In"

\* C11: the layer table of a returned document lists F.Cu first, then exactly
\* In1.Cu..InK.Cu in increasing order, then B.Cu, where K is the largest
\* internal-layer index resolved by a shape of the input, top-level or in a
\* footprint; with no such shape B.Cu directly follows F.Cu.
C11_LayerTable ==
  \A r \in 1..Len(returned) :
    returned[r] # Rejection =>
      ListsInnerLayers(returned[r].layers, LargestOf(InnerOfInput(shape)))

\* C11 witness: a top-level shape on layer 21 and a footprint with a shape on
\* layer 23: the returned document lists In1.Cu, In2.Cu, In3.Cu between F.Cu
\* and B.Cu.
C11_Witness ==
  /\ Len(returned) >= 1 /\ returned[1] # Rejection
  /\ Len(shape) = 2
  /\ InnerOf(shape[1], FALSE) = {1}
  /\ shape[2].type = "LIB"
  /\ LargestOf(InnerOfInput(shape)) = 3
  /\ returned[1].layers[4].name = [pre |-> "In", n |-> 3, suf |-> "Cu"]
  /\ returned[1].layers[5] = BCu

----------------------------------------------------------------------------
\* Tracks

\* Track records of one, two and three points: wide, unlocked and with a net
\* the table may lack, or narrow, locked and without a net
TrackProbes(id) ==
  { TrackOfWidth(100, id, "A", coords, FALSE) : coords \in {Line1, Line2, Line3} }
  \cup { TrackOfWidth(25, id, "", coords, TRUE) : coords \in {Line1, Line2, Line3} }

\* The k-th point of the polyline, converted
PointOf(coords, k) ==
  [x |-> (coords[2 * k - 1] - 400000) * 254, y |-> (coords[2 * k] - 300000) * 254]

\* The nodes are the polyline's N - 1 segments in order, alike in all but
\* their end points
IsPolylineOf(nodes, t, kind, layerName) ==
  /\ Len(nodes) = Len(t.coords) \div 2 - 1
  /\ \A k \in 1..Len(nodes) :
       /\ nodes[k].kind = kind
       /\ nodes[k].start = PointOf(t.coords, k)
       /\ nodes[k].end = PointOf(t.coords, k + 1)
       /\ nodes[k].width = t.width * 254
       /\ nodes[k].layer = layerName
       /\ nodes[k].net = nodes[1].net
       /\ nodes[k].status = IF t.locked THEN 40000 ELSE 0

\* Layer ids that resolve to a name, with the name and whether it is copper
ResolvedProbes ==
  { [id |-> <<1>>, name |-> [pre |-> "F", n |-> 0, suf |-> "Cu"], copper |-> TRUE],
    [id |-> <<2>>, name |-> [pre |-> "B", n |-> 0, suf |-> "Cu"], copper |-> TRUE],
    [id |-> <<2, 4>>, name |-> [pre |-> "In", n |-> 4, suf |-> "Cu"], copper |-> TRUE],
    [id |-> <<3>>, name |-> [pre |-> "F", n |-> 0, suf |-> "SilkS"], copper |-> FALSE],
    [id |-> <<1, 0>>, name |-> [pre |-> "Edge", n |-> 0, suf |-> "Cuts"], copper |-> FALSE],
    [id |-> <<1, 5>>, name |-> [pre |-> "Dwgs", n |-> 0, suf |-> "User"], copper |-> FALSE] }

\* C12: for a track record of N >= 1 points whose layer resolves to a name,
\* convertTrack emits exactly N - 1 nodes, the k-th from point k to point
\* k + 1, all with the record's width, layer, net and lock state; at board
\* level the kind is 'segment' on a copper layer and 'gr_line' on any other.
C12_TrackSegments ==
  /\ \A p \in ResolvedProbes : \A t \in TrackProbes(p.id) :
       /\ With(convertTrack(t, Current, "segment"), LAMBDA r :
            /\ ~r.e.threw
            /\ IsPolylineOf(r.ret, t, IF p.copper THEN "segment" ELSE "gr_line", p.name))
       /\ IsPolylineOf(convertTrack(t, Current, "fp_line").ret, t, "fp_line", p.name)
  /\ \A j \in 1..Len(mapped) :
       (shape[j].type = "TRACK" /\ mapped[j] # Rejection
        /\ \E p \in ResolvedProbes : p.id = shape[j].layer)
       => \E p \in ResolvedProbes :
            /\ p.id = shape[j].layer
            /\ IsPolylineOf(mapped[j].value.items, shape[j],
                            IF p.copper THEN "segment" ELSE "gr_line", p.name)

\* C12 witness: a three-point track on F.Cu has been converted to two
\* segment nodes, the second starting where the first ends.
C12_Witness ==
  /\ pc = "map" /\ i = 2
  /\ shape[1].type = "TRACK" /\ shape[1].layer = <<1>> /\ shape[1].coords = Line3
  /\ Len(mapped[1].value.items) = 2
  /\ mapped[1].value.items[1].kind = "segment"
  /\ mapped[1].value.items[2].start = mapped[1].value.items[1].end

----------------------------------------------------------------------------
\* Net fields

\* The id the last getNetId call of the execution returned
Resolved(e) == e.netLog[Len(e.netLog)][2]

\* A net field that is there only for a positive id, and then holds it
NetOnlyIfPositive(node, id) ==
  /\ node.net # Null => (id > 0 /\ node.net.id = id)
  /\ id <= 0 => node.net = Null

PadProbes ==
  { Pad(sh, <<1>>, net, hole, <<>>) :
      sh \in {"RECT", "OVAL"}, net \in {"A", "B", "", undefined}, hole \in {0, 5} }

\* Track on a copper layer or not, pad or via, the node emitted in a module
\* or at board level
CarriesNetLawfully(node) ==
  /\ node.kind = "via" => node.net # Null
  /\ node.kind \in {"segment", "gr_line", "fp_line", "pad"} =>
       (node.net # Null => node.net.id > 0)

\* C13: a pad node or a track node carries a net field only when the net id
\* resolved for its record is strictly positive; a via node always carries a
\* net field, with whatever id was resolved.
C13_NetFieldEmission ==
  /\ \A net \in {"A", "B", "", undefined} :
       /\ With(convertVia(Via(net), Current), LAMBDA r :
            r.ret.net # Null /\ r.ret.net.id = Resolved(r.e))
       /\ With(convertPadToVia(Pad("ELLIPSE", <<1, 1>>, net, 5, <<>>), Current), LAMBDA r :
            r.ret.kind = "via" /\ r.ret.net # Null /\ r.ret.net.id = Resolved(r.e))
       /\ \A id \in {<<1>>, <<2, 2>>, <<3>>} :
            With(convertTrack(Track(id, net, Line3, FALSE), Current, "segment"), LAMBDA r :
              \A k \in 1..Len(r.ret) : NetOnlyIfPositive(r.ret[k], Resolved(r.e)))
  /\ \A p \in PadProbes :
       With(convertPad(p, Current), LAMBDA r :
         /\ NetOnlyIfPositive(r.ret, Resolved(r.e))
         /\ Resolved(r.e) > 0 => r.ret.net # Null)
  /\ \A j \in 1..Len(mapped) :
       (mapped[j] # Rejection /\ mapped[j].value # Null) =>
         \A k \in 1..Len(mapped[j].value.items) :
           mapped[j].value.items[k] # Null =>
             /\ CarriesNetLawfully(mapped[j].value.items[k])
             /\ mapped[j].value.items[k].kind = "module" =>
                  \A c \in 1..Len(mapped[j].value.items[k].shapes) :
                    mapped[j].value.items[k].shapes[c] # Null =>
                      CarriesNetLawfully(mapped[j].value.items[k].shapes[c])

\* C13 witness: a via with an empty net name carries the net field with the
\* id -1 that was resolved, and a copper track with an empty net name after
\* it carries none.
C13_Witness ==
  /\ pc = "map" /\ i = 3
  /\ shape[1] = Via("") /\ shape[2].type = "TRACK" /\ shape[2].layer = <<2, 1>>
  /\ netLog = <<<<"", -1>>, <<"", -1>>>>
  /\ mapped[1].value.items[1].net = [kind |-> "net", id |-> -1]
  /\ Len(mapped[2].value.items) = 1
  /\ mapped[2].value.items[1].net = Null

----------------------------------------------------------------------------
\* Footprints

HasSmdPad(children) ==
  \E c \in 1..Len(children) :
    children[c] # Null /\ children[c].kind = "pad" /\ children[c].ptype = "smd"

MarkedSmd(module) == \E a \in 1..Len(module.attrs) : module.attrs[a] = "smd"

ThruPad == Pad("OVAL", <<1>>, "A", 4, <<>>)

SmdPad == Pad("RECT", <<2>>, "B", 0, <<>>)

\* Footprints without a surface-mount pad among the pads they emit: through
\* hole pads only, non-plated holes only, no pad, a surface-mount polygon pad
\* that is dropped for its missing outline
UnmarkedProbes ==
  { Lib(<<ThruPad>>), Lib(<<ThruPad, Hole, ThruPad>>), Lib(<<Hole, Hole>>), Lib(<<>>),
    Lib(<<Text("N", <<3>>, ""), Circle(<<1>>)>>),
    Lib(<<Pad("POLYGON", <<1>>, "A", 0, <<>>), Hole>>) }

MarkedProbes ==
  { Lib(<<SmdPad>>), Lib(<<ThruPad, SmdPad>>), Lib(<<Hole, SmdPad, ThruPad>>),
    Lib(<<Pad("POLYGON", <<1>>, "A", 0, Square)>>) }

\* C14: the module convertLib returns carries the attribute smd exactly when
\* one of the child pads it emitted is of kind 'smd'; with through-hole pads
\* only, non-plated holes only or no pad it carries none.
C14_SmdAttribute ==
  /\ \A l \in UnmarkedProbes :
       With(convertLib(l, Current).ret, LAMBDA module :
         ~MarkedSmd(module) /\ ~HasSmdPad(module.shapes))
  /\ \A l \in MarkedProbes :
       With(convertLib(l, Current).ret, LAMBDA module :
         MarkedSmd(module) /\ HasSmdPad(module.shapes))
  /\ \A j \in 1..Len(mapped) :
       (shape[j].type = "LIB" /\ mapped[j] # Rejection) =>
         (MarkedSmd(mapped[j].value.items[1]) <=> HasSmdPad(mapped[j].value.items[1].shapes))

\* C14 witness: two footprints converted, the first with a surface-mount pad
\* and the attribute, the second with a through-hole pad and a non-plated
\* hole and without it.
C14_Witness ==
  /\ pc = "map" /\ i = 3
  /\ shape[1].type = "LIB" /\ shape[2].type = "LIB"
  /\ mapped[1] # Rejection /\ mapped[2] # Rejection
  /\ mapped[1].value.items[1].attrs = <<"smd">>
  /\ HasSmdPad(mapped[1].value.items[1].shapes)
  /\ mapped[2].value.items[1].attrs = <<>>
  /\ \E c \in 1..Len(mapped[2].value.items[1].shapes) :
       /\ mapped[2].value.items[1].shapes[c] # Null
       /\ mapped[2].value.items[1].shapes[c].kind = "pad"
       /\ mapped[2].value.items[1].shapes[c].ptype = "thru_hole"

----------------------------------------------------------------------------
\* Pad size

\* 0.254 mm per source unit, and no less than 0.01 mm
Emitted(length) == IF length * 254 < 1000 THEN 1000 ELSE length * 254

\* Into (-180, 180]
Normalised(angle) == IF angle > 180 THEN angle - 360 ELSE angle

\* The node's size and rotation are those of a pad of the width and height:
\* the smaller first, swapped with a quarter turn back when the width is
\* the larger, and given as they are when it is not
SizedAs(node, width, height, rotation) ==
  /\ node.size[1] <= node.size[2]
  /\ node.size[1] >= 1000 /\ node.size[2] >= 1000
  /\ IF width > height
     THEN /\ node.size = <<Emitted(height), Emitted(width)>>
          /\ node.rotation = Normalised(rotation - 90)
     ELSE /\ node.size = <<Emitted(width), Emitted(height)>>
          /\ node.rotation = Normalised(rotation)

\* Pads of the record's own size: every shape but a polygon whose points are
\* a rectangle
PlainPadProbes ==
  { PadOfSize(sh, <<1>>, "A", 0, <<>>, w, h, rot) :
      sh \in {"RECT", "OVAL"}, w \in {0, 3, 400, 600}, h \in {3, 400}, rot \in {0, 90, 300} }
  \cup { PadOfSize("POLYGON", <<1>>, "A", 0, <<0, 0, 10, 0, 5, 10>>, w, 400, 0) : w \in {3, 600} }

\* Polygon pads whose points are a rectangle 900 wide and 200 high
RectanglePadProbes ==
  { PadOfSize("POLYGON", <<1>>, "A", 0, Wide, w, h, rot) :
      w \in {400, 600}, h \in {400, 600}, rot \in {0, 90, 180, 270} }

\* Width and height of the rectangle as the pad's rotation has them
WideAt(rot) == IF rot \in {90, 270} THEN <<200, 900>> ELSE <<900, 200>>

\* The pad records of the footprint that reached the module, in order
IsPadOfRecord(lib, module, c) ==
  /\ c <= Len(lib.shapes) /\ lib.shapes[c].type = "PAD"
  /\ \A d \in 1..c : lib.shapes[d].type \in {"PAD", "TEXT", "HOLE"}
  /\ module.shapes[c] # Null

\* C15: the size convertPad emits has its first component at most its
\* second and neither below 0.01; when the pad's width exceeds its height
\* the two are swapped and the emitted rotation is the rotation minus 90
\* degrees, otherwise both are emitted as given; width and height being the
\* record's, or for a polygon pad whose points form a rectangle the
\* rectangle's (exchanged when the rotation is an odd multiple of 90 degrees).
C15_PadSize ==
  /\ \A p \in PlainPadProbes :
       SizedAs(convertPad(p, Current).ret, p.width, p.height, p.rotation)
  /\ \A p \in RectanglePadProbes :
       SizedAs(convertPad(p, Current).ret,
               WideAt(p.rotation)[1], WideAt(p.rotation)[2], p.rotation)
  /\ \A j \in 1..Len(mapped) :
       (shape[j].type = "LIB" /\ mapped[j] # Rejection) =>
         \A c \in 1..Len(mapped[j].value.items[1].shapes) :
           (IsPadOfRecord(shape[j], mapped[j].value.items[1], c)
            /\ ~isRectangle(shape[j].shapes[c].points)) =>
             SizedAs(mapped[j].value.items[1].shapes[c], shape[j].shapes[c].width,
                     shape[j].shapes[c].height, shape[j].shapes[c].rotation)

\* C15 as stated: width and height are the record's for every pad record.
C15_RecordSizeDecides ==
  /\ \A p \in PlainPadProbes \cup RectanglePadProbes :
       SizedAs(convertPad(p, Current).ret, p.width, p.height, p.rotation)
  /\ \A j \in 1..Len(mapped) :
       (shape[j].type = "LIB" /\ mapped[j] # Rejection) =>
         \A c \in 1..Len(mapped[j].value.items[1].shapes) :
           IsPadOfRecord(shape[j], mapped[j].value.items[1], c) =>
             SizedAs(mapped[j].value.items[1].shapes[c], shape[j].shapes[c].width,
                     shape[j].shapes[c].height, shape[j].shapes[c].rotation)

\* C15 witness: a footprint's pad of width 600 and height 400 has been
\* emitted with size (400, 600), converted, and rotation -90; another of
\* width 3 and height 500 at 270 degrees with its width raised to 0.01 and
\* rotation -90.
C15_Witness ==
  /\ pc = "map" /\ i = 2
  /\ shape[1].type = "LIB" /\ mapped[1] # Rejection
  /\ shape[1].shapes[1].type = "PAD" /\ shape[1].shapes[1].width = 600
  /\ shape[1].shapes[1].height = 400 /\ shape[1].shapes[1].rotation = 0
  /\ mapped[1].value.items[1].shapes[1].size = <<101600, 152400>>
  /\ mapped[1].value.items[1].shapes[1].rotation = -90
  /\ shape[1].shapes[4].width = 3
  /\ mapped[1].value.items[1].shapes[4].size = <<1000, 127000>>
  /\ mapped[1].value.items[1].shapes[4].rotation = -90

----------------------------------------------------------------------------
\* Net references

HasEntry(doc, id) ==
  \E j \in 1..Len(doc.objs) : doc.objs[j].kind = "net" /\ doc.objs[j].idx = id

RefersToEntry(doc, node) ==
  (node.kind \in {"via", "segment", "gr_line", "fp_line", "pad", "zone"} /\ node.net # Null)
    => HasEntry(doc, node.net.id)

\* C16: in every document convertBoardToArray returns, each net id in a net
\* field of an emitted node (via, segment, pad, zone, at board level or in a
\* module) is the index of a net entry of the document's net table.
C16_NetIdsIndexTable ==
  \A r \in 1..Len(returned) :
    returned[r] # Rejection =>
      \A k \in 1..Len(returned[r].objs) :
        /\ RefersToEntry(returned[r], returned[r].objs[k])
        /\ returned[r].objs[k].kind = "module" =>
             \A c \in 1..Len(returned[r].objs[k].shapes) :
               returned[r].objs[k].shapes[c] # Null =>
                 RefersToEntry(returned[r], returned[r].objs[k].shapes[c])

====
